---------------------------- MODULE Spec2Model ----------------------------
(***************************************************************************)
(* A model of freedom_core (native/freedom_core/src): the packet header    *)
(* and packet codecs, the handshake payload, the layered encryption and    *)
(* the C entry points.                                                     *)
(*                                                                         *)
(* Numbers.  TLC integers are 32-bit signed, so a u32 is kept as a pair of *)
(* 16-bit limbs <<hi, lo>> (value hi * 65536 + lo); a usize uses the same  *)
(* pair with an unbounded hi limb (usize is taken to be 64 bits wide, so   *)
(* HEADER_SIZE + a u32 never wraps).  A u64 is four 16-bit limbs.  Bytes   *)
(* are 0 .. 255 and a buffer is a sequence of bytes; Rust's 0-based index  *)
(* i is the sequence's index i + 1.                                        *)
(***************************************************************************)
EXTENDS Integers, Sequences, FiniteSets, TLC

VARIABLES
    \* the packet exchange
    args,       \* the arguments NetworkPacket::new was called with
    packet,     \* the NetworkPacket it returned
    wire,       \* the byte buffer that is handed to the decoders
    origin,     \* how wire was produced
    result,     \* the return value of NetworkPacket::from_bytes(wire)
    hresult,    \* the return value of FixedHeader::from_bytes(wire)
    reencoded,  \* to_bytes() of the header FixedHeader::from_bytes returned
    \* the handshake
    hs_args,    \* the identity and timestamp of the sign_handshake call
    hs,         \* the HandshakePayload it returned
    hs_direct,  \* the return value of hs.verify()
    hs_wire,    \* the bytes handed to HandshakePayload::from_bytes
    hs_origin,  \* how hs_wire was produced
    hs_parsed,  \* the return value of HandshakePayload::from_bytes(hs_wire)
    hs_verdict, \* the return value of verify() on the parsed payload
    \* the encrypted layer
    seal_args,  \* session key, plaintext and random source of encrypt_layer
    sealed,     \* the return value of encrypt_layer
    seal_wire,  \* the bytes handed to try_decrypt_layer
    seal_stage, \* how seal_wire was produced
    open_key,   \* the session key handed to try_decrypt_layer
    opened,     \* the return value of try_decrypt_layer
    \* the C entry points
    ffi_call,   \* the entry point called and its arguments
    ffi_ret     \* what the call did

pvars == <<args, packet, wire, origin, result, hresult, reencoded>>
hvars == <<hs_args, hs, hs_direct, hs_wire, hs_origin, hs_parsed, hs_verdict>>
svars == <<seal_args, sealed, seal_wire, seal_stage, open_key, opened>>
fvars == <<ffi_call, ffi_ret>>
vars == <<pvars, hvars, svars, fvars>>

---------------------------------------------------------------------------
(* Bit and limb arithmetic                                                 *)

RECURSIVE XorBits(_, _, _)
\* a ^ b on n-bit unsigned integers
XorBits(a, b, n) ==
    IF n = 0 THEN 0
    ELSE ((a + b) % 2) + 2 * XorBits(a \div 2, b \div 2, n - 1)

Xor8(a, b) == XorBits(a, b, 8)
Xor16(a, b) == XorBits(a, b, 16)

\* x ^ y on u32
U32Xor(x, y) == <<Xor16(x[1], y[1]), Xor16(x[2], y[2])>>

\* x >> 1 on u32
U32Shr1(x) == <<x[1] \div 2, (x[2] \div 2) + 32768 * (x[1] % 2)>>

\* `n as u32` for a usize n = <<hi, lo>>: the low 32 bits
UsizeAsU32(n) == <<n[1] % 65536, n[2]>>

\* `u as usize` for a u32
U32AsUsize(u) == <<u[1], u[2]>>

\* the usize of a (small) natural number, such as a buffer's length
Usize(n) == <<n \div 65536, n % 65536>>

\* a + b on usize (no wrap: both operands are below 2^33)
UsizeAdd(a, b) ==
    <<a[1] + b[1] + ((a[2] + b[2]) \div 65536), (a[2] + b[2]) % 65536>>

\* a < b on usize
UsizeLt(a, b) == a[1] < b[1] \/ (a[1] = b[1] /\ a[2] < b[2])

\* a usize known to be at most a buffer's length, as a natural number
UsizeNat(a) == a[1] * 65536 + a[2]

\* u32::to_be_bytes
U32ToBeBytes(u) == <<u[1] \div 256, u[1] % 256, u[2] \div 256, u[2] % 256>>

\* u32::from_be_bytes
U32FromBeBytes(b) == <<b[1] * 256 + b[2], b[3] * 256 + b[4]>>

---------------------------------------------------------------------------
(* CRC-32 (crc32fast::Hasher): reflected polynomial 0xEDB88320, initial    *)
(* value and final xor 0xFFFFFFFF.                                         *)

CrcPoly == <<60856, 33568>>       \* 0xEDB8_8320
CrcOnes == <<65535, 65535>>       \* 0xFFFF_FFFF

RECURSIVE CrcShift(_, _)
\* k rounds of: crc = (crc >> 1) ^ (poly if crc was odd)
CrcShift(crc, k) ==
    IF k = 0 THEN crc
    ELSE CrcShift(IF crc[2] % 2 = 1 THEN U32Xor(U32Shr1(crc), CrcPoly)
                                    ELSE U32Shr1(crc),
                  k - 1)

\* the byte-wise lookup table of the baseline algorithm
CrcTable == [b \in 0 .. 255 |-> CrcShift(<<0, b>>, 8)]

\* x >> 8 on u32
U32Shr8(x) == <<x[1] \div 256, (x[2] \div 256) + 256 * (x[1] % 256)>>

\* one byte into the running crc: table[(crc ^ byte) & 0xFF] ^ (crc >> 8)
CrcByte(crc, byte) == U32Xor(CrcTable[Xor8(crc[2] % 256, byte)], U32Shr8(crc))

RECURSIVE CrcUpdate(_, _, _)
\* Hasher::update over bytes[i ..]
CrcUpdate(crc, bytes, i) ==
    IF i > Len(bytes) THEN crc
    ELSE CrcUpdate(CrcByte(crc, bytes[i]), bytes, i + 1)

\* Hasher::new(); update(bytes); finalize()
Crc32(bytes) == U32Xor(CrcUpdate(CrcOnes, bytes, 1), CrcOnes)

---------------------------------------------------------------------------
(* protocol/header.rs                                                      *)

HEADER_SIZE == 16

MessageTypes ==
    {"Handshake", "Onion", "DhtFindNode", "DhtFindNodeRes", "Store", "StoreRes",
     "Fetch", "FetchRes", "Put", "GetValueReq", "GetValueRes", "Unknown"}

\* `message_type as u8`: the enum's discriminants
MessageTypeAsU8(mt) ==
    CASE mt = "Handshake"      -> 1
      [] mt = "Onion"          -> 2
      [] mt = "DhtFindNode"    -> 3
      [] mt = "DhtFindNodeRes" -> 4
      [] mt = "Store"          -> 5
      [] mt = "StoreRes"       -> 6
      [] mt = "Fetch"          -> 7
      [] mt = "FetchRes"       -> 8
      [] mt = "Put"            -> 10
      [] mt = "GetValueReq"    -> 11
      [] mt = "GetValueRes"    -> 12
      [] mt = "Unknown"        -> 255

\* a decoder that numbers the variants densely, without the gap at 0x09
MessageTypeFromU8Dense(value) ==
    CASE value = 1  -> "Handshake"
      [] value = 2  -> "Onion"
      [] value = 3  -> "DhtFindNode"
      [] value = 4  -> "DhtFindNodeRes"
      [] value = 5  -> "Store"
      [] value = 6  -> "StoreRes"
      [] value = 7  -> "Fetch"
      [] value = 8  -> "FetchRes"
      [] value = 9  -> "Put"
      [] value = 10 -> "GetValueReq"
      [] value = 11 -> "GetValueRes"
      [] OTHER      -> "Unknown"

\* impl From<u8> for MessageType
MessageTypeFromU8(value) ==
    CASE value = 1  -> "Handshake"
      [] value = 2  -> "Onion"
      [] value = 3  -> "DhtFindNode"
      [] value = 4  -> "DhtFindNodeRes"
      [] value = 5  -> "Store"
      [] value = 6  -> "StoreRes"
      [] value = 7  -> "Fetch"
      [] value = 8  -> "FetchRes"
      [] value = 10 -> "Put"
      [] value = 11 -> "GetValueReq"
      [] value = 12 -> "GetValueRes"
      [] OTHER      -> "Unknown"

\* FixedHeader::new
FixedHeaderNew(version, flags, message_type, request_id, payload_length, checksum) ==
    [version        |-> version,
     flags          |-> flags,
     message_type   |-> message_type,
     reserved       |-> 0,
     request_id     |-> request_id,
     payload_length |-> payload_length,
     checksum       |-> checksum]

\* a create that counts the header into payload_length
FixedHeaderCreateTotalLen(message_type, request_id, payload) ==
    FixedHeaderNew(1, 0, message_type, request_id,
                   UsizeAsU32(Usize(HEADER_SIZE + Len(payload))), Crc32(payload))

\* FixedHeader::create
FixedHeaderCreate(message_type, request_id, payload) ==
    FixedHeaderNew(1, 0, message_type, request_id,
                   UsizeAsU32(Usize(Len(payload))), Crc32(payload))

\* u32::to_le_bytes
U32ToLeBytes(u) == <<u[2] % 256, u[2] \div 256, u[1] % 256, u[1] \div 256>>

\* a to_bytes that writes the request id little-endian
FixedHeaderToBytesLe(h) ==
    <<h.version, h.flags, MessageTypeAsU8(h.message_type), h.reserved>>
        \o U32ToLeBytes(h.request_id)
        \o U32ToBeBytes(h.payload_length)
        \o U32ToBeBytes(h.checksum)

\* FixedHeader::to_bytes
FixedHeaderToBytes(h) ==
    <<h.version, h.flags, MessageTypeAsU8(h.message_type), h.reserved>>
        \o U32ToBeBytes(h.request_id)
        \o U32ToBeBytes(h.payload_length)
        \o U32ToBeBytes(h.checksum)

NoHeader ==
    [version |-> 0, flags |-> 0, message_type |-> "Unknown", reserved |-> 0,
     request_id |-> <<0, 0>>, payload_length |-> <<0, 0>>, checksum |-> <<0, 0>>]

\* bytes[a .. b] of a Rust slice (0-based, b exclusive); in range iff a <= b <= len
SliceOk(bytes, a, b) == a <= b /\ b <= Len(bytes)
Slice(bytes, a, b) == SubSeq(bytes, a + 1, b)

\* The values a decoder returns.  tag is "Ok", "Err" or "Panic" (an index out of
\* range, or an unwrap of a failed conversion); touched is the number of
\* leading bytes of the input the call has indexed.
HeaderOk(h) == [tag |-> "Ok", err |-> "", header |-> h, touched |-> HEADER_SIZE]
HeaderErr(e) == [tag |-> "Err", err |-> e, header |-> NoHeader, touched |-> 0]
HeaderPanic(n) == [tag |-> "Panic", err |-> "", header |-> NoHeader, touched |-> n]

\* a from_bytes that builds the header with FixedHeader::new, which sets
\* reserved to 0
FixedHeaderFromBytesViaNew(bytes) ==
    IF Len(bytes) < HEADER_SIZE THEN HeaderErr("BufferTooSmall")
    ELSE HeaderOk(FixedHeaderNew(bytes[1], bytes[2], MessageTypeFromU8(bytes[3]),
                                 U32FromBeBytes(Slice(bytes, 4, 8)),
                                 U32FromBeBytes(Slice(bytes, 8, 12)),
                                 U32FromBeBytes(Slice(bytes, 12, 16))))

\* FixedHeader::from_bytes
FixedHeaderFromBytes(bytes) ==
    IF Len(bytes) < HEADER_SIZE THEN HeaderErr("BufferTooSmall")
    ELSE IF ~SliceOk(bytes, 0, 16) THEN HeaderPanic(16)
    ELSE HeaderOk([version        |-> bytes[1],
                   flags          |-> bytes[2],
                   message_type   |-> MessageTypeFromU8(bytes[3]),
                   reserved       |-> bytes[4],
                   request_id     |-> U32FromBeBytes(Slice(bytes, 4, 8)),
                   payload_length |-> U32FromBeBytes(Slice(bytes, 8, 12)),
                   checksum       |-> U32FromBeBytes(Slice(bytes, 12, 16))])

---------------------------------------------------------------------------
(* protocol/packet.rs                                                      *)

NoPacket == [header |-> NoHeader, payload |-> <<>>]

\* NetworkPacket::new
NetworkPacketNew(message_type, request_id, payload) ==
    [header  |-> FixedHeaderCreate(message_type, request_id, payload),
     payload |-> payload]

\* NetworkPacket::to_bytes
NetworkPacketToBytes(p) == FixedHeaderToBytes(p.header) \o p.payload

PacketOk(h, payload, n) ==
    [tag |-> "Ok", err |-> "", packet |-> [header |-> h, payload |-> payload],
     touched |-> n]
PacketErr(e, n) == [tag |-> "Err", err |-> e, packet |-> NoPacket, touched |-> n]
PacketPanic(n) == [tag |-> "Panic", err |-> "", packet |-> NoPacket, touched |-> n]

\* a from_bytes that returns the packet without comparing the checksum
NetworkPacketFromBytesNoCrc(data) ==
    IF Len(data) < HEADER_SIZE THEN PacketErr("BufferTooSmall", 0)
    ELSE
      LET hr == FixedHeaderFromBytes(Slice(data, 0, HEADER_SIZE))
          expected_total_len ==
              UsizeAdd(Usize(HEADER_SIZE), U32AsUsize(hr.header.payload_length))
      IN
      IF UsizeLt(Usize(Len(data)), expected_total_len)
      THEN PacketErr("PayloadLengthMismatch", HEADER_SIZE)
      ELSE PacketOk(hr.header,
                    Slice(data, HEADER_SIZE, UsizeNat(expected_total_len)),
                    UsizeNat(expected_total_len))

\* a from_bytes that compares the declared length with the whole buffer's
\* length, header included, before it slices the payload
NetworkPacketFromBytesWholeLen(data) ==
    IF Len(data) < HEADER_SIZE THEN PacketErr("BufferTooSmall", 0)
    ELSE
      LET hr == FixedHeaderFromBytes(Slice(data, 0, HEADER_SIZE))
          payload_len == U32AsUsize(hr.header.payload_length)
          expected_total_len == UsizeAdd(Usize(HEADER_SIZE), payload_len)
      IN
      IF UsizeLt(Usize(Len(data)), payload_len)
      THEN PacketErr("PayloadLengthMismatch", HEADER_SIZE)
      ELSE IF ~SliceOk(data, HEADER_SIZE, UsizeNat(expected_total_len))
      THEN PacketPanic(Len(data) + 1)
      ELSE
        LET payload == Slice(data, HEADER_SIZE, UsizeNat(expected_total_len)) IN
        IF Crc32(payload) # hr.header.checksum
        THEN PacketErr("ChecksumMismatch", UsizeNat(expected_total_len))
        ELSE PacketOk(hr.header, payload, UsizeNat(expected_total_len))

\* a from_bytes that takes everything after the header as the payload
NetworkPacketFromBytesRest(data) ==
    IF Len(data) < HEADER_SIZE THEN PacketErr("BufferTooSmall", 0)
    ELSE
      LET hr == FixedHeaderFromBytes(Slice(data, 0, HEADER_SIZE))
          expected_total_len ==
              UsizeAdd(Usize(HEADER_SIZE), U32AsUsize(hr.header.payload_length))
      IN
      IF UsizeLt(Usize(Len(data)), expected_total_len)
      THEN PacketErr("PayloadLengthMismatch", HEADER_SIZE)
      ELSE
        LET payload == Slice(data, HEADER_SIZE, Len(data)) IN
        IF Crc32(payload) # hr.header.checksum
        THEN PacketErr("ChecksumMismatch", Len(data))
        ELSE PacketOk(hr.header, payload, Len(data))

\* NetworkPacket::from_bytes
NetworkPacketFromBytes(data) ==
    IF Len(data) < HEADER_SIZE THEN PacketErr("BufferTooSmall", 0)
    ELSE IF ~SliceOk(data, 0, HEADER_SIZE) THEN PacketPanic(HEADER_SIZE)
    ELSE
      LET hr == FixedHeaderFromBytes(Slice(data, 0, HEADER_SIZE)) IN
      IF hr.tag # "Ok" THEN [tag |-> hr.tag, err |-> hr.err, packet |-> NoPacket,
                             touched |-> hr.touched]
      ELSE
        LET header             == hr.header
            payload_len        == U32AsUsize(header.payload_length)
            expected_total_len == UsizeAdd(Usize(HEADER_SIZE), payload_len)
        IN
        IF UsizeLt(Usize(Len(data)), expected_total_len)
        THEN PacketErr("PayloadLengthMismatch", HEADER_SIZE)
        ELSE IF ~SliceOk(data, HEADER_SIZE, UsizeNat(expected_total_len))
        THEN PacketPanic(Len(data) + 1)
        ELSE
          LET payload == Slice(data, HEADER_SIZE, UsizeNat(expected_total_len))
              calculated_crc == Crc32(payload)
          IN
          IF calculated_crc # header.checksum
          THEN PacketErr("ChecksumMismatch", UsizeNat(expected_total_len))
          ELSE PacketOk(header, payload, UsizeNat(expected_total_len))

---------------------------------------------------------------------------
(* Keys and signatures.  The Ed25519 and X25519 arithmetic of the dalek    *)
(* crates is not modelled; the model keeps what the code relies on.  An    *)
(* identity is a number 1 .. NumIdentities; its signing key is that number *)
(* and its verifying key and onion key are fixed 32-byte strings.  The     *)
(* signature scheme is ideal: Ed25519Sign is a deterministic function of   *)
(* the signing key and the message that loses nothing of either (over the  *)
(* keys of the model), and a signature verifies under a key exactly when   *)
(* it is the one the owner of that key computes for that message.          *)

NumIdentities == 2
Identities == 1 .. NumIdentities

Zeros(n) == [k \in 1 .. n |-> 0]

\* SigningKey::verifying_key().as_bytes(): the compressed point of identity
\* i.  (y = 3, 4, 5, 6 are y-coordinates of curve points.)
VerifyingKeyBytes(i) == <<2 + i>> \o Zeros(31)

\* y = 2 is the y-coordinate of no point of the curve: a 32-byte string that
\* VerifyingKey::from_bytes rejects
NotAPoint == <<2>> \o Zeros(31)

\* VerifyingKey::from_bytes(b).is_ok(), over the strings of the model
IsPoint(b) == \E i \in Identities : b = VerifyingKeyBytes(i)

\* x25519_dalek::PublicKey::from(&onion_secret).as_bytes() of identity i
OnionKeyBytes(i) == <<64 + i>> \o Zeros(30) \o <<64>>

\* the identity a verifying key belongs to, 0 for a foreign string
OwnerOfVerifyingKey(b) ==
    IF \E i \in Identities : VerifyingKeyBytes(i) = b
    THEN CHOOSE i \in Identities : VerifyingKeyBytes(i) = b
    ELSE 0

\* the identity an onion key belongs to, 0 for a foreign string
OwnerOfOnionKey(b) ==
    IF \E i \in Identities : OnionKeyBytes(i) = b
    THEN CHOOSE i \in Identities : OnionKeyBytes(i) = b
    ELSE 0

\* SigningKey::sign (and Signature::to_bytes): 64 bytes, the scalar half
\* canonical (top three bits of the last byte clear), never all zero
Ed25519Sign(sk, message) ==
    LET n    == Len(message)
        rest == IF n > 64 THEN SubSeq(message, 65, n) ELSE <<>>
    IN  <<128 + sk,
          OwnerOfVerifyingKey(SubSeq(message, 1, 32)),
          OwnerOfOnionKey(SubSeq(message, 33, 64)),
          n>>
        \o SubSeq(rest \o Zeros(28), 1, 28)
        \o Zeros(32)

\* VerifyingKey::verify(message, signature).is_ok()
Ed25519Verify(key, message, signature) ==
    \E i \in Identities :
        key = VerifyingKeyBytes(i) /\ signature = Ed25519Sign(i, message)

\* u64::to_be_bytes, the u64 being four 16-bit limbs, most significant first
U64ToBeBytes(t) ==
    <<t[1] \div 256, t[1] % 256, t[2] \div 256, t[2] % 256,
      t[3] \div 256, t[3] % 256, t[4] \div 256, t[4] % 256>>

\* u64::from_be_bytes
U64FromBeBytes(b) ==
    <<b[1] * 256 + b[2], b[3] * 256 + b[4], b[5] * 256 + b[6], b[7] * 256 + b[8]>>

---------------------------------------------------------------------------
(* crypto/handshake.rs and crypto/identity.rs                              *)

HANDSHAKE_PAYLOAD_SIZE == 136

NoHandshake ==
    [identity_key |-> Zeros(32), onion_key |-> Zeros(32),
     timestamp |-> <<0, 0, 0, 0>>, signature |-> Zeros(64)]

\* the 72-byte message of NodeIdentity::sign_handshake
SignedMessage(identity_pub, onion_pub, timestamp) ==
    identity_pub \o onion_pub \o U64ToBeBytes(timestamp)

\* a sign_handshake that signs the two keys only
SignHandshakeKeysOnly(i, timestamp) ==
    [identity_key |-> VerifyingKeyBytes(i),
     onion_key    |-> OnionKeyBytes(i),
     timestamp    |-> timestamp,
     signature    |-> Ed25519Sign(i, VerifyingKeyBytes(i) \o OnionKeyBytes(i))]

\* NodeIdentity::sign_handshake, for the identity numbered i
SignHandshake(i, timestamp) ==
    LET identity_pub == VerifyingKeyBytes(i)
        onion_pub    == OnionKeyBytes(i)
        message      == SignedMessage(identity_pub, onion_pub, timestamp)
    IN  [identity_key |-> identity_pub,
         onion_key    |-> onion_pub,
         timestamp    |-> timestamp,
         signature    |-> Ed25519Sign(i, message)]

\* HandshakePayload::to_bytes
HandshakeToBytes(h) ==
    h.identity_key \o h.onion_key \o U64ToBeBytes(h.timestamp) \o h.signature

HandshakeOk(h) == [tag |-> "Ok", err |-> "", payload |-> h]
HandshakeErr(e) == [tag |-> "Err", err |-> e, payload |-> NoHandshake]

\* HandshakePayload::from_bytes.  Signature::from_bytes takes any 64 bytes.
HandshakeFromBytes(bytes) ==
    IF Len(bytes) # HANDSHAKE_PAYLOAD_SIZE THEN HandshakeErr("InvalidSize")
    ELSE IF ~IsPoint(Slice(bytes, 0, 32)) THEN HandshakeErr("InvalidIdentityKey")
    ELSE HandshakeOk([identity_key |-> Slice(bytes, 0, 32),
                      onion_key    |-> Slice(bytes, 32, 64),
                      timestamp    |-> U64FromBeBytes(Slice(bytes, 64, 72)),
                      signature    |-> Slice(bytes, 72, 136)])

\* the message HandshakePayload::verify rebuilds
VerifiedMessage(h) == h.identity_key \o h.onion_key \o U64ToBeBytes(h.timestamp)

\* HandshakePayload::verify
HandshakeVerify(h) ==
    IF Ed25519Verify(h.identity_key, VerifiedMessage(h), h.signature)
    THEN [tag |-> "Ok", err |-> ""]
    ELSE [tag |-> "Err", err |-> "VerificationFailed"]

---------------------------------------------------------------------------
(* crypto/helper.rs.  ChaCha20-Poly1305, X25519 and HKDF are ideal as      *)
(* well: the cipher xors the plaintext with a keystream that depends on    *)
(* key and nonce, and its 16-byte tag is a function of key, nonce and      *)
(* ciphertext that loses nothing of them (over the keys and nonces of the  *)
(* model and ciphertexts of up to 13 bytes), so that a ciphertext opens    *)
(* exactly under the key and nonce it was sealed with.                     *)

NONCE_SIZE == 12
KEY_SIZE == 32
TAG_SIZE == 16

NumKeys == 2
NumNonces == 2

\* the session keys of the model; key 0 is the all-zero key
SessionKey(k) == IF k = 0 THEN Zeros(KEY_SIZE) ELSE <<k>> \o Zeros(KEY_SIZE - 2) \o <<k>>
SessionKeys == {SessionKey(k) : k \in 1 .. NumKeys}

\* the nonces the random source may produce; nonce 0 is the zeroed buffer
Nonce(r) == IF r = 0 THEN Zeros(NONCE_SIZE) ELSE <<r>> \o Zeros(NONCE_SIZE - 2) \o <<16 * r>>
Nonces == {Nonce(r) : r \in 1 .. NumNonces}

KeyId(key) ==
    IF \E k \in 0 .. NumKeys : SessionKey(k) = key
    THEN CHOOSE k \in 0 .. NumKeys : SessionKey(k) = key
    ELSE 255

NonceId(nonce) ==
    IF \E r \in 0 .. NumNonces : Nonce(r) = nonce
    THEN CHOOSE r \in 0 .. NumNonces : Nonce(r) = nonce
    ELSE 255

\* byte j of the ChaCha20 keystream under key and nonce
KeystreamByte(key, nonce, j) == (37 * KeyId(key) + 59 * NonceId(nonce) + 101 * j + 7) % 256

\* the stream cipher: text xor keystream
StreamXor(key, nonce, text) ==
    [j \in 1 .. Len(text) |-> Xor8(text[j], KeystreamByte(key, nonce, j))]

\* the Poly1305 tag of a ciphertext
AeadTag(key, nonce, ciphertext) ==
    <<KeyId(key), NonceId(nonce), Len(ciphertext)>>
        \o SubSeq(ciphertext \o Zeros(TAG_SIZE - 3), 1, TAG_SIZE - 3)

\* Aead::encrypt(nonce, plaintext): ciphertext followed by the tag
AeadEncrypt(key, nonce, plaintext) ==
    LET ciphertext == StreamXor(key, nonce, plaintext) IN
    ciphertext \o AeadTag(key, nonce, ciphertext)

BytesOk(b) == [tag |-> "Ok", err |-> "", bytes |-> b]
BytesErr(e) == [tag |-> "Err", err |-> e, bytes |-> <<>>]

\* Aead::decrypt(nonce, ciphertext)
AeadDecrypt(key, nonce, input) ==
    IF Len(input) < TAG_SIZE THEN BytesErr("aead::Error")
    ELSE
      LET ciphertext == SubSeq(input, 1, Len(input) - TAG_SIZE)
          tag        == SubSeq(input, Len(input) - TAG_SIZE + 1, Len(input))
      IN
      IF tag = AeadTag(key, nonce, ciphertext)
      THEN BytesOk(StreamXor(key, nonce, ciphertext))
      ELSE BytesErr("aead::Error")

\* What OsRng.try_fill_bytes may do to the zeroed 12-byte buffer: fill it and
\* return Ok, or fail and leave it as it was.
RngOutcomes ==
    {[ok |-> TRUE, bytes |-> n] : n \in Nonces}
        \cup {[ok |-> FALSE, bytes |-> Zeros(NONCE_SIZE)]}

\* an encrypt_layer that leaves the tag out of its output
EncryptLayerNoTag(session_key, plaintext, rng) ==
    BytesOk(rng.bytes \o StreamXor(session_key, rng.bytes, plaintext))

\* encrypt_layer; rng is what OsRng.try_fill_bytes does in this call
EncryptLayer(session_key, plaintext, rng) ==
    LET nonce_bytes == rng.bytes       \* the result of try_fill_bytes is dropped
        ciphertext  == AeadEncrypt(session_key, nonce_bytes, plaintext)
    IN  BytesOk(nonce_bytes \o ciphertext)

\* try_decrypt_layer
TryDecryptLayer(session_key, encrypted_packet) ==
    IF Len(encrypted_packet) < NONCE_SIZE THEN BytesErr("InvalidLength")
    ELSE
      LET nonce      == Slice(encrypted_packet, 0, NONCE_SIZE)
          ciphertext == Slice(encrypted_packet, NONCE_SIZE, Len(encrypted_packet))
          plain      == AeadDecrypt(session_key, nonce, ciphertext)
      IN  IF plain.tag = "Ok" THEN plain ELSE BytesErr("DecryptionError")

\* the X25519 secret of identity i (StaticSecret::to_bytes)
OnionSecretBytes(i) == <<192 + i>> \o Zeros(31)

\* the identity an X25519 secret belongs to, 0 for a foreign string
OwnerOfOnionSecret(b) ==
    IF \E i \in Identities : OnionSecretBytes(i) = b
    THEN CHOOSE i \in Identities : OnionSecretBytes(i) = b
    ELSE 0

\* StaticSecret::diffie_hellman: the same for (a, pub b) and (b, pub a)
DiffieHellman(my_private_key, other_public_key) ==
    LET a == OwnerOfOnionSecret(my_private_key)
        b == OwnerOfOnionKey(other_public_key)
    IN  <<IF a < b THEN a ELSE b, IF a < b THEN b ELSE a>> \o Zeros(30)

\* Hkdf::<Sha256>::new(None, ikm).expand(&[], 32 bytes)
HkdfSha256(ikm) == <<224>> \o SubSeq(ikm, 1, KEY_SIZE - 1)

\* create_session_key
CreateSessionKey(my_private_key, other_public_key) ==
    HkdfSha256(DiffieHellman(my_private_key, other_public_key))

---------------------------------------------------------------------------
(* ffi.rs.  A pointer argument is null or points at the caller's buffer    *)
(* mem, which holds at least as many bytes as the call is told (the        *)
(* callee cannot check that).  A call returns an i32, or the process       *)
(* aborts: a panic cannot unwind out of an extern "C" function.            *)

NullPtr == [null |-> TRUE, mem |-> <<>>]
PtrTo(mem) == [null |-> FALSE, mem |-> mem]

\* raw_to_slice
RawToSlice(ptr, len) ==
    IF ptr.null \/ len = 0 THEN <<>> ELSE SubSeq(ptr.mem, 1, len)

FfiReturn(ret, out) == [outcome |-> "return", ret |-> ret, out |-> out]
FfiAbort(out) == [outcome |-> "abort", ret |-> 0, out |-> out]

\* write_to_buffer; out is the output buffer after the call
WriteToBuffer(ptr, len, data) ==
    IF ptr.null \/ len < Len(data) THEN FfiReturn(-1, ptr.mem)
    ELSE FfiReturn(Len(data), data \o SubSeq(ptr.mem, Len(data) + 1, Len(ptr.mem)))

\* ffi_create_session_key
FfiCreateSessionKey(my_private_key_ptr, other_public_key_ptr, output_ptr) ==
    LET my_private_bytes   == RawToSlice(my_private_key_ptr, 32)
        other_public_bytes == RawToSlice(other_public_key_ptr, 32)
    IN
    IF Len(my_private_bytes) # 32 THEN FfiAbort(output_ptr.mem)        \* unwrap
    ELSE IF Len(other_public_bytes) # 32 THEN FfiAbort(output_ptr.mem) \* unwrap
    ELSE
      LET session_key == CreateSessionKey(my_private_bytes, other_public_bytes) IN
      IF output_ptr.null THEN FfiReturn(-1, output_ptr.mem)
      ELSE FfiReturn(1, session_key \o SubSeq(output_ptr.mem, 33, Len(output_ptr.mem)))

\* ffi_validate_handshake
FfiValidateHandshake(data_ptr, len) ==
    LET data   == RawToSlice(data_ptr, len)
        parsed == HandshakeFromBytes(data)
    IN
    IF parsed.tag = "Ok"
    THEN IF HandshakeVerify(parsed.payload).tag = "Ok" THEN FfiReturn(1, <<>>)
                                                       ELSE FfiReturn(-1, <<>>)
    ELSE FfiReturn(-1, <<>>)

\* ffi_encrypt_layer; rng is what OsRng.try_fill_bytes does in this call
FfiEncryptLayer(key_ptr, plaintext_ptr, plaintext_len, output_ptr, output_cap, rng) ==
    LET key_bytes == RawToSlice(key_ptr, 32)
        plaintext == RawToSlice(plaintext_ptr, plaintext_len)
        key_array == IF Len(key_bytes) = 32 THEN key_bytes ELSE Zeros(32)  \* unwrap_or
        encrypted == EncryptLayer(key_array, plaintext, rng)
    IN
    IF encrypted.tag = "Ok"
    THEN WriteToBuffer(output_ptr, output_cap, encrypted.bytes)
    ELSE FfiReturn(-1, output_ptr.mem)

---------------------------------------------------------------------------
(* The packet exchange: a packet is built and encoded, the buffer may be   *)
(* damaged on the way, and the receiver decodes what arrives.  A buffer    *)
(* may also arrive from a peer that built it by other means.               *)

MaxPayloadLen == 2      \* longest payload drawn from PayloadBytes
MaxTail == 2            \* most bytes following a hand-built header
MaxTrailing == 2        \* most bytes appended to an encoded packet

PayloadBytes == {0, 1, 255}

\* b"123456789", the payload of test_header_serialization_with_real_checksum
TestPayload == <<49, 50, 51, 52, 53, 54, 55, 56, 57>>

SeqsUpTo(S, n) == UNION {[1 .. k -> S] : k \in 0 .. n}

Payloads == SeqsUpTo(PayloadBytes, MaxPayloadLen) \cup {TestPayload}

\* byte sequences that follow an encoded packet in the receiver's buffer
TrailingBytes == SeqsUpTo({0, 255}, MaxTrailing) \ {<<>>}

RequestIds == {<<0, 100>>, <<65535, 65535>>}

\* payload lengths a hand-built header declares
DeclaredLengths == {<<0, 0>>, <<0, 1>>, <<0, 2>>, <<0, 3>>, <<1, 0>>, <<65535, 65535>>}

HeaderBytes(v, f, t, r, rid, plen, ck) ==
    <<v, f, t, r>> \o U32ToBeBytes(rid) \o U32ToBeBytes(plen) \o U32ToBeBytes(ck)

\* headers with every value of the message type byte and an empty payload
SweepBuffers ==
    {HeaderBytes(v, f, t, r, <<0, 100>>, <<0, 0>>, <<0, 0>>) :
        v \in {1, 255}, f \in {0, 255}, t \in 0 .. 255, r \in {0, 255}}

\* headers declaring any length and a right or a wrong checksum, followed by a
\* tail, and every prefix of such a buffer
LengthBuffers ==
    UNION {UNION {{SubSeq(HeaderBytes(1, 0, 1, 0, <<0, 100>>, plen, ck) \o tail, 1, n) :
                      n \in 0 .. HEADER_SIZE + Len(tail)} :
                  plen \in DeclaredLengths,
                  ck \in {<<0, 0>>, <<65535, 65535>>, Crc32(tail)}} :
           tail \in SeqsUpTo(PayloadBytes, MaxTail)}

NoArgs == [message_type |-> "Unknown", request_id |-> <<0, 0>>, payload |-> <<>>]
NoResult == [tag |-> "None", err |-> "", packet |-> NoPacket, touched |-> 0]
NoHResult == [tag |-> "None", err |-> "", header |-> NoHeader, touched |-> 0]

\* byte with bit b (0 = least significant) inverted
FlipBit(byte, b) ==
    LET w == 2 ^ b IN IF (byte \div w) % 2 = 1 THEN byte - w ELSE byte + w

NoHsArgs == [identity |-> 0, timestamp |-> <<0, 0, 0, 0>>]
NoVerdict == [tag |-> "None", err |-> ""]
NoParsed == [tag |-> "None", err |-> "", payload |-> NoHandshake]
NoBytes == [tag |-> "None", err |-> "", bytes |-> <<>>]
NoSealArgs ==
    [session_key |-> <<>>, plaintext |-> <<>>,
     rng |-> [ok |-> FALSE, bytes |-> <<>>]]
NoCall ==
    [fn |-> "none", ptrs |-> <<>>, len |-> 0, cap |-> 0,
     rng |-> [ok |-> FALSE, bytes |-> <<>>]]
NoRet == [outcome |-> "none", ret |-> 0, out |-> <<>>]

Init ==
    /\ args = NoArgs
    /\ packet = NoPacket
    /\ wire = <<>>
    /\ origin = "none"
    /\ result = NoResult
    /\ hresult = NoHResult
    /\ reencoded = <<>>
    /\ hs_args = NoHsArgs
    /\ hs = NoHandshake
    /\ hs_direct = NoVerdict
    /\ hs_wire = <<>>
    /\ hs_origin = "none"
    /\ hs_parsed = NoParsed
    /\ hs_verdict = NoVerdict
    /\ seal_args = NoSealArgs
    /\ sealed = NoBytes
    /\ seal_wire = <<>>
    /\ seal_stage = "none"
    /\ open_key = <<>>
    /\ opened = NoBytes
    /\ ffi_call = NoCall
    /\ ffi_ret = NoRet

\* a caller builds a packet: NetworkPacket::new
BuildPacket ==
    /\ origin = "none"
    /\ \E message_type \in MessageTypes, request_id \in RequestIds, payload \in Payloads :
          /\ args' = [message_type |-> message_type, request_id |-> request_id,
                      payload |-> payload]
          /\ packet' = NetworkPacketNew(message_type, request_id, payload)
    /\ origin' = "built"
    /\ UNCHANGED <<wire, result, hresult, reencoded, hvars, svars, fvars>>

\* the caller serialises it: NetworkPacket::to_bytes
Encode ==
    /\ origin = "built"
    /\ wire' = NetworkPacketToBytes(packet)
    /\ origin' = "encoded"
    /\ UNCHANGED <<args, packet, result, hresult, reencoded, hvars, svars, fvars>>

\* the transport inverts one bit of the payload region
FlipPayloadBit ==
    /\ origin = "encoded"
    /\ result = NoResult /\ hresult = NoHResult
    /\ \E i \in HEADER_SIZE + 1 .. Len(wire), b \in 0 .. 7 :
          wire' = [wire EXCEPT ![i] = FlipBit(@, b)]
    /\ origin' = "flipped"
    /\ UNCHANGED <<args, packet, result, hresult, reencoded, hvars, svars, fvars>>

\* the transport delivers only the first n bytes
Truncate ==
    /\ origin = "encoded"
    /\ result = NoResult /\ hresult = NoHResult
    /\ \E n \in 0 .. Len(wire) - 1 : wire' = SubSeq(wire, 1, n)
    /\ origin' = "truncated"
    /\ UNCHANGED <<args, packet, result, hresult, reencoded, hvars, svars, fvars>>

\* the receiver's buffer holds more bytes after the encoded packet
AppendTrailing ==
    /\ origin = "encoded"
    /\ result = NoResult /\ hresult = NoHResult
    /\ \E x \in TrailingBytes : wire' = wire \o x
    /\ origin' = "extended"
    /\ UNCHANGED <<args, packet, result, hresult, reencoded, hvars, svars, fvars>>

\* a buffer arrives that no NetworkPacket::new built
ReceiveRaw ==
    /\ origin = "none"
    /\ wire' \in SweepBuffers \cup LengthBuffers
    /\ origin' = "raw"
    /\ UNCHANGED <<args, packet, result, hresult, reencoded, hvars, svars, fvars>>

\* the receiver calls NetworkPacket::from_bytes
DecodePacket ==
    /\ origin \in {"encoded", "flipped", "truncated", "extended", "raw"}
    /\ result = NoResult
    /\ result' = NetworkPacketFromBytes(wire)
    /\ UNCHANGED <<args, packet, wire, origin, hresult, reencoded, hvars, svars, fvars>>

\* the receiver calls FixedHeader::from_bytes
DecodeHeader ==
    /\ origin \in {"encoded", "flipped", "truncated", "extended", "raw"}
    /\ hresult = NoHResult
    /\ hresult' = FixedHeaderFromBytes(wire)
    /\ UNCHANGED <<args, packet, wire, origin, result, reencoded, hvars, svars, fvars>>

\* the receiver serialises the header it parsed: FixedHeader::to_bytes
ReencodeHeader ==
    /\ hresult.tag = "Ok"
    /\ result = NoResult
    /\ reencoded = <<>>
    /\ reencoded' = FixedHeaderToBytes(hresult.header)
    /\ UNCHANGED <<args, packet, wire, origin, result, hresult, hvars, svars, fvars>>

Next ==
    \/ BuildPacket
    \/ Encode
    \/ FlipPayloadBit
    \/ Truncate
    \/ AppendTrailing
    \/ ReceiveRaw
    \/ DecodePacket
    \/ DecodeHeader
    \/ ReencodeHeader

Spec == Init /\ [][Next]_vars

---------------------------------------------------------------------------
(* The handshake: an identity signs a payload, which is verified as it is  *)
(* or encoded, possibly altered on the way, decoded and then verified.     *)

Timestamps ==
    {<<0, 0, 0, 0>>,
     <<0, 0, 25939, 61696>>,                \* 1700000000, the test's timestamp
     <<65535, 65535, 65535, 65535>>}

\* signature encodings whose scalar half is not canonical (s >= 2^253)
MalformedSignatures == {Zeros(63) \o <<128>>, [k \in 1 .. 64 |-> 255]}

\* NodeIdentity::sign_handshake
SignHandshakeCall ==
    /\ hs_origin = "none"
    /\ \E i \in Identities, timestamp \in Timestamps :
          /\ hs_args' = [identity |-> i, timestamp |-> timestamp]
          /\ hs' = SignHandshake(i, timestamp)
    /\ hs_origin' = "signed"
    /\ UNCHANGED <<hs_direct, hs_wire, hs_parsed, hs_verdict, pvars, svars, fvars>>

\* HandshakePayload::verify on the payload as signed
VerifyDirect ==
    /\ hs_origin = "signed"
    /\ hs_direct = NoVerdict
    /\ hs_direct' = HandshakeVerify(hs)
    /\ UNCHANGED <<hs_args, hs, hs_wire, hs_origin, hs_parsed, hs_verdict,
                   pvars, svars, fvars>>

\* HandshakePayload::to_bytes
HandshakeEncode ==
    /\ hs_origin = "signed"
    /\ hs_wire' = HandshakeToBytes(hs)
    /\ hs_origin' = "encoded"
    /\ UNCHANGED <<hs_args, hs, hs_direct, hs_parsed, hs_verdict, pvars, svars, fvars>>

\* the 64 signature bytes are zeroed
ZeroSignature ==
    /\ hs_origin = "encoded" /\ hs_parsed = NoParsed
    /\ hs_wire' = SubSeq(hs_wire, 1, 72) \o Zeros(64)
    /\ hs_origin' = "zeroed"
    /\ UNCHANGED <<hs_args, hs, hs_direct, hs_parsed, hs_verdict, pvars, svars, fvars>>

\* one bit of the 8 timestamp bytes is inverted
FlipTimestampBit ==
    /\ hs_origin = "encoded" /\ hs_parsed = NoParsed
    /\ \E i \in 65 .. 72, b \in 0 .. 7 :
          hs_wire' = [hs_wire EXCEPT ![i] = FlipBit(@, b)]
    /\ hs_origin' = "ts_flipped"
    /\ UNCHANGED <<hs_args, hs, hs_direct, hs_parsed, hs_verdict, pvars, svars, fvars>>

\* the signature bytes are replaced by a malformed encoding
MalformSignature ==
    /\ hs_origin = "encoded" /\ hs_parsed = NoParsed
    /\ \E sig \in MalformedSignatures : hs_wire' = SubSeq(hs_wire, 1, 72) \o sig
    /\ hs_origin' = "malformed"
    /\ UNCHANGED <<hs_args, hs, hs_direct, hs_parsed, hs_verdict, pvars, svars, fvars>>

\* the identity key is replaced: by no point, or by another identity's key
ReplaceIdentityKey ==
    /\ hs_origin = "encoded" /\ hs_parsed = NoParsed
    /\ \E key \in {NotAPoint} \cup {VerifyingKeyBytes(i) : i \in Identities} :
          /\ key # SubSeq(hs_wire, 1, 32)
          /\ hs_wire' = key \o SubSeq(hs_wire, 33, Len(hs_wire))
    /\ hs_origin' = "rekeyed"
    /\ UNCHANGED <<hs_args, hs, hs_direct, hs_parsed, hs_verdict, pvars, svars, fvars>>

\* the buffer arrives shorter, or with one byte more
Resize ==
    /\ hs_origin = "encoded" /\ hs_parsed = NoParsed
    /\ \/ \E n \in 0 .. Len(hs_wire) - 1 : hs_wire' = SubSeq(hs_wire, 1, n)
       \/ hs_wire' = hs_wire \o <<0>>
    /\ hs_origin' = "resized"
    /\ UNCHANGED <<hs_args, hs, hs_direct, hs_parsed, hs_verdict, pvars, svars, fvars>>

\* HandshakePayload::from_bytes
HandshakeDecode ==
    /\ hs_origin \notin {"none", "signed"}
    /\ hs_parsed = NoParsed
    /\ hs_parsed' = HandshakeFromBytes(hs_wire)
    /\ UNCHANGED <<hs_args, hs, hs_direct, hs_wire, hs_origin, hs_verdict,
                   pvars, svars, fvars>>

\* HandshakePayload::verify on the decoded payload
VerifyParsed ==
    /\ hs_parsed.tag = "Ok"
    /\ hs_verdict = NoVerdict
    /\ hs_verdict' = HandshakeVerify(hs_parsed.payload)
    /\ UNCHANGED <<hs_args, hs, hs_direct, hs_wire, hs_origin, hs_parsed,
                   pvars, svars, fvars>>

NextHandshake ==
    \/ SignHandshakeCall
    \/ VerifyDirect
    \/ HandshakeEncode
    \/ ZeroSignature
    \/ FlipTimestampBit
    \/ MalformSignature
    \/ ReplaceIdentityKey
    \/ Resize
    \/ HandshakeDecode
    \/ VerifyParsed

SpecHandshake == Init /\ [][NextHandshake]_vars

---------------------------------------------------------------------------
(* The encrypted layer: a plaintext is sealed under a session key, the     *)
(* output is delivered whole or cut short, and opened under some key.      *)

MaxPlainLen == 2
PlainBytes == {0, 255}
Plaintexts == SeqsUpTo(PlainBytes, MaxPlainLen)

\* encrypt_layer
SealCall ==
    /\ seal_stage = "none"
    /\ \E session_key \in SessionKeys, plaintext \in Plaintexts, rng \in RngOutcomes :
          /\ seal_args' = [session_key |-> session_key, plaintext |-> plaintext,
                           rng |-> rng]
          /\ sealed' = EncryptLayer(session_key, plaintext, rng)
    /\ seal_stage' = "sealed"
    /\ UNCHANGED <<seal_wire, open_key, opened, pvars, hvars, fvars>>

\* the sealed bytes reach the peer
Deliver ==
    /\ seal_stage = "sealed" /\ sealed.tag = "Ok"
    /\ seal_wire' = sealed.bytes
    /\ seal_stage' = "whole"
    /\ UNCHANGED <<seal_args, sealed, open_key, opened, pvars, hvars, fvars>>

\* only the first n of them do
DeliverShort ==
    /\ seal_stage = "sealed" /\ sealed.tag = "Ok"
    /\ \E n \in 0 .. Len(sealed.bytes) - 1 : seal_wire' = SubSeq(sealed.bytes, 1, n)
    /\ seal_stage' = "short"
    /\ UNCHANGED <<seal_args, sealed, open_key, opened, pvars, hvars, fvars>>

\* try_decrypt_layer
OpenCall ==
    /\ seal_stage \in {"whole", "short"}
    /\ opened = NoBytes
    /\ \E session_key \in SessionKeys :
          /\ open_key' = session_key
          /\ opened' = TryDecryptLayer(session_key, seal_wire)
    /\ UNCHANGED <<seal_args, sealed, seal_wire, seal_stage, pvars, hvars, fvars>>

NextSeal ==
    \/ SealCall
    \/ Deliver
    \/ DeliverShort
    \/ OpenCall

SpecSeal == Init /\ [][NextSeal]_vars

---------------------------------------------------------------------------
(* The C entry points, each called once with pointers that may be null.    *)

\* a caller's output buffer of n bytes, before the call
Fill(n) == [k \in 1 .. n |-> 170]

\* the handshake buffers a caller holds: a signed payload, or one with its
\* signature zeroed, in an allocation of 137 bytes
HandshakeBuffers ==
    UNION {{HandshakeToBytes(SignHandshake(i, t)) \o <<0>>,
            SubSeq(HandshakeToBytes(SignHandshake(i, t)), 1, 72) \o Zeros(65)} :
           i \in Identities, t \in Timestamps}

NoRng == [ok |-> FALSE, bytes |-> <<>>]

\* ffi_create_session_key
CallCreateSessionKey ==
    /\ ffi_call.fn = "none"
    /\ \E my_private_key_ptr \in {NullPtr} \cup {PtrTo(OnionSecretBytes(i)) : i \in Identities},
          other_public_key_ptr \in {NullPtr} \cup {PtrTo(OnionKeyBytes(i)) : i \in Identities},
          output_ptr \in {NullPtr, PtrTo(Fill(KEY_SIZE))} :
          /\ ffi_call' = [fn |-> "ffi_create_session_key",
                          ptrs |-> <<my_private_key_ptr, other_public_key_ptr, output_ptr>>,
                          len |-> 0, cap |-> KEY_SIZE, rng |-> NoRng]
          /\ ffi_ret' = FfiCreateSessionKey(my_private_key_ptr, other_public_key_ptr,
                                            output_ptr)
    /\ UNCHANGED <<pvars, hvars, svars>>

\* ffi_validate_handshake
CallValidateHandshake ==
    /\ ffi_call.fn = "none"
    /\ \E data_ptr \in {NullPtr} \cup {PtrTo(b) : b \in HandshakeBuffers},
          len \in {0, 135, 136, 137} :
          /\ ffi_call' = [fn |-> "ffi_validate_handshake", ptrs |-> <<data_ptr>>,
                          len |-> len, cap |-> 0, rng |-> NoRng]
          /\ ffi_ret' = FfiValidateHandshake(data_ptr, len)
    /\ UNCHANGED <<pvars, hvars, svars>>

\* ffi_encrypt_layer
CallEncryptLayer ==
    /\ ffi_call.fn = "none"
    /\ \E key_ptr \in {NullPtr} \cup {PtrTo(k) : k \in SessionKeys},
          plaintext_ptr \in {NullPtr} \cup {PtrTo(m) : m \in Plaintexts \ {<<>>}},
          plaintext_len \in 0 .. MaxPlainLen,
          output_cap \in {NONCE_SIZE + TAG_SIZE - 1, NONCE_SIZE + MaxPlainLen + TAG_SIZE},
          output_null \in BOOLEAN,
          rng \in RngOutcomes :
          /\ plaintext_ptr.null \/ plaintext_len <= Len(plaintext_ptr.mem)
          /\ LET output_ptr == IF output_null THEN NullPtr ELSE PtrTo(Fill(output_cap)) IN
             /\ ffi_call' = [fn |-> "ffi_encrypt_layer",
                             ptrs |-> <<key_ptr, plaintext_ptr, output_ptr>>,
                             len |-> plaintext_len, cap |-> output_cap, rng |-> rng]
             /\ ffi_ret' = FfiEncryptLayer(key_ptr, plaintext_ptr, plaintext_len,
                                           output_ptr, output_cap, rng)
    /\ UNCHANGED <<pvars, hvars, svars>>

NextFfi ==
    \/ CallCreateSessionKey
    \/ CallValidateHandshake
    \/ CallEncryptLayer

SpecFfi == Init /\ [][NextFfi]_vars

---------------------------------------------------------------------------
(* Properties of the packet exchange                                       *)

\* C1.  Packet round trip: the packet built by NetworkPacket::new from any
\* message type, request id and payload encodes to 16 + payload length bytes,
\* and decoding those bytes returns Ok with the same header fields (version,
\* flags, message type, reserved, request id, payload length, checksum) and
\* the same payload bytes.
PacketRoundTrip ==
    /\ origin = "encoded" =>
          /\ Len(wire) = HEADER_SIZE + Len(args.payload)
          /\ packet.header.payload_length = <<0, Len(wire) - HEADER_SIZE>>
    /\ (origin = "encoded" /\ result # NoResult) =>
          /\ result.tag = "Ok"
          /\ result.packet.header.version = packet.header.version
          /\ result.packet.header.flags = packet.header.flags
          /\ result.packet.header.message_type = args.message_type
          /\ result.packet.header.reserved = packet.header.reserved
          /\ result.packet.header.request_id = args.request_id
          /\ result.packet.header.payload_length = packet.header.payload_length
          /\ result.packet.header.checksum = packet.header.checksum
          /\ result.packet.payload = args.payload

\* a non-empty payload with the all-ones request id has made the round trip
PacketRoundTripReached ==
    /\ origin = "encoded"
    /\ result.tag = "Ok"
    /\ args.payload = TestPayload
    /\ args.request_id = <<65535, 65535>>
    /\ args.message_type = "Put"

\* C2.  Tamper detection: after one bit of the payload region of an encoded
\* packet is inverted, NetworkPacket::from_bytes returns
\* Err(ChecksumMismatch) and never Ok.
TamperDetected ==
    (origin = "flipped" /\ result # NoResult) =>
        result.tag = "Err" /\ result.err = "ChecksumMismatch"

\* the decoder has rejected a packet whose last payload bit was inverted
TamperDetectedReached ==
    /\ origin = "flipped"
    /\ result.tag = "Err"
    /\ Len(wire) = HEADER_SIZE + MaxPayloadLen
    /\ wire[Len(wire)] # args.payload[Len(args.payload)]

\* the payload length a buffer of at least 16 bytes declares (bytes 8 .. 12,
\* big-endian) is larger than the number of bytes that follow its header
DeclaresTooMuch(buffer) ==
    \/ buffer[9] # 0 \/ buffer[10] # 0
    \/ buffer[11] * 256 + buffer[12] > Len(buffer) - HEADER_SIZE

\* C3.  Truncation detection: NetworkPacket::from_bytes returns
\* Err(BufferTooSmall) for every buffer shorter than 16 bytes and
\* Err(PayloadLengthMismatch) for every longer buffer whose declared payload
\* length exceeds what follows the header, whatever the checksum field holds;
\* it indexes no byte at or beyond the buffer's length and does not panic.
TruncationDetected ==
    result # NoResult =>
        /\ Len(wire) < HEADER_SIZE =>
              result.tag = "Err" /\ result.err = "BufferTooSmall"
        /\ (Len(wire) >= HEADER_SIZE /\ DeclaresTooMuch(wire)) =>
              result.tag = "Err" /\ result.err = "PayloadLengthMismatch"
        /\ (result.tag = "Err" /\ result.err = "BufferTooSmall") =>
              Len(wire) < HEADER_SIZE
        /\ result.touched <= Len(wire)
        /\ result.tag # "Panic"

\* a buffer that declares 3 payload bytes, carries 2 and holds a wrong
\* checksum has been rejected for its length
TruncationDetectedReached ==
    /\ result.tag = "Err"
    /\ result.err = "PayloadLengthMismatch"
    /\ Len(wire) = HEADER_SIZE + 2
    /\ SubSeq(wire, 9, 12) = <<0, 0, 0, 3>>
    /\ SubSeq(wire, 13, 16) = <<255, 255, 255, 255>>

\* the wire value of each known message type (spec section 6)
WireValue ==
    [mt \in MessageTypes \ {"Unknown"} |->
        CASE mt = "Handshake"      -> 1
          [] mt = "Onion"          -> 2
          [] mt = "DhtFindNode"    -> 3
          [] mt = "DhtFindNodeRes" -> 4
          [] mt = "Store"          -> 5
          [] mt = "StoreRes"       -> 6
          [] mt = "Fetch"          -> 7
          [] mt = "FetchRes"       -> 8
          [] mt = "Put"            -> 10
          [] mt = "GetValueReq"    -> 11
          [] mt = "GetValueRes"    -> 12]

\* C5.  Header construction: FixedHeader::create returns version 1, flags 0,
\* reserved 0, the given message type and request id, the payload's exact
\* length and its CRC-32 (0xCBF43926 for "123456789", 0 for the empty
\* payload); to_bytes lays version, flags, message type and reserved in bytes
\* 0 .. 3 and request id, payload length and checksum big-endian in bytes
\* 4 .. 8, 8 .. 12 and 12 .. 16.
HeaderConstruction ==
    /\ origin \in {"built", "encoded", "flipped", "truncated"} =>
          /\ packet.header.version = 1
          /\ packet.header.flags = 0
          /\ packet.header.reserved = 0
          /\ packet.header.message_type = args.message_type
          /\ packet.header.request_id = args.request_id
          /\ packet.header.payload_length = <<0, Len(args.payload)>>
          /\ packet.header.checksum = Crc32(args.payload)
          /\ args.payload = TestPayload => packet.header.checksum = <<52212, 14630>>
          /\ args.payload = <<>> => packet.header.checksum = <<0, 0>>
    /\ origin = "encoded" =>
          /\ wire[1] = 1 /\ wire[2] = 0 /\ wire[4] = 0
          /\ wire[3] = (IF args.message_type = "Unknown" THEN 255
                                                          ELSE WireValue[args.message_type])
          /\ wire[5] * 256 + wire[6] = args.request_id[1]
          /\ wire[7] * 256 + wire[8] = args.request_id[2]
          /\ wire[9] = 0 /\ wire[10] = 0
          /\ wire[11] * 256 + wire[12] = Len(args.payload)
          /\ wire[13] * 256 + wire[14] = packet.header.checksum[1]
          /\ wire[15] * 256 + wire[16] = packet.header.checksum[2]
          /\ \A i \in 1 .. HEADER_SIZE : wire[i] \in 0 .. 255

\* the header of the test's packet (Handshake, request id 100, "123456789")
\* has been laid out
HeaderConstructionReached ==
    /\ origin = "encoded"
    /\ args = [message_type |-> "Handshake", request_id |-> <<0, 100>>,
               payload |-> TestPayload]
    /\ SubSeq(wire, 1, HEADER_SIZE) =
           <<1, 0, 1, 0, 0, 0, 0, 100, 0, 0, 0, 9, 203, 244, 57, 38>>

\* C10.  Message type forward compatibility: FixedHeader::from_bytes returns
\* Ok for every buffer of at least 16 bytes; byte 2 decodes to the variant
\* with that wire value for 0x01 .. 0x08 and 0x0A .. 0x0C and to Unknown for
\* every other value; its only error is BufferTooSmall, returned exactly for
\* the buffers shorter than 16 bytes.
ForwardCompatible ==
    hresult # NoHResult =>
        /\ hresult.tag \in {"Ok", "Err"}
        /\ hresult.tag = "Ok" <=> Len(wire) >= HEADER_SIZE
        /\ hresult.tag = "Err" => hresult.err = "BufferTooSmall"
        /\ hresult.tag = "Ok" =>
              LET mt == hresult.header.message_type IN
              IF wire[3] \in (1 .. 8) \cup (10 .. 12)
              THEN mt \in DOMAIN WireValue /\ WireValue[mt] = wire[3]
              ELSE mt = "Unknown"

\* the unassigned value 0x09 has been decoded, to Unknown
ForwardCompatibleReached ==
    /\ hresult.tag = "Ok"
    /\ wire[3] = 9
    /\ hresult.header.message_type = "Unknown"

\* C11.  Trailing bytes are ignored by packet decode: for a packet P built by
\* NetworkPacket::new and any bytes X, NetworkPacket::from_bytes of
\* P.to_bytes() followed by X returns Ok with the header and payload that
\* from_bytes(P.to_bytes()) returns; the payload is the first payload_length
\* bytes after the header, and a buffer longer than 16 + payload_length
\* raises no error.
TrailingBytesIgnored ==
    (origin = "extended" /\ result # NoResult) =>
        LET exact == NetworkPacketFromBytes(NetworkPacketToBytes(packet))
            n     == UsizeNat(U32AsUsize(result.packet.header.payload_length))
        IN
        /\ Len(wire) > HEADER_SIZE + Len(args.payload)
        /\ SubSeq(wire, 1, HEADER_SIZE + Len(args.payload)) = NetworkPacketToBytes(packet)
        /\ exact.tag = "Ok"
        /\ result.tag = "Ok"
        /\ result.packet.header = exact.packet.header
        /\ result.packet.payload = exact.packet.payload
        /\ result.packet.payload = args.payload
        /\ Len(wire) > HEADER_SIZE + n
        /\ result.packet.payload = SubSeq(wire, HEADER_SIZE + 1, HEADER_SIZE + n)
        /\ result.touched = HEADER_SIZE + n

\* a packet with a non-empty payload followed by two bytes has been decoded
TrailingBytesIgnoredReached ==
    /\ origin = "extended"
    /\ result.tag = "Ok"
    /\ Len(args.payload) = 2
    /\ Len(wire) = HEADER_SIZE + 4
    /\ wire[HEADER_SIZE + 3] = 255

\* the discriminants of the eleven known message types
KnownTypeBytes == (1 .. 8) \cup (10 .. 12)

\* C12.  Re-encoding a decoded header: for a 16-byte buffer B,
\* FixedHeader::from_bytes(B).to_bytes() equals B when byte 2 of B is the
\* value of a known message type or 0xFF; for any other byte 2 the result
\* has 0xFF in byte 2 and the other 15 bytes of B.
HeaderReencode ==
    (reencoded # <<>> /\ Len(wire) = HEADER_SIZE) =>
        /\ hresult.tag = "Ok"
        /\ Len(reencoded) = HEADER_SIZE
        /\ wire[3] \in KnownTypeBytes \cup {255} => reencoded = wire
        /\ wire[3] \notin KnownTypeBytes \cup {255} =>
              /\ reencoded[3] = 255
              /\ \A i \in (1 .. HEADER_SIZE) \ {3} : reencoded[i] = wire[i]

\* a header with an unassigned message type byte and a non-zero reserved byte
\* has been decoded and encoded again
HeaderReencodeReached ==
    /\ origin = "raw"
    /\ Len(wire) = HEADER_SIZE
    /\ wire[3] = 9
    /\ wire[4] = 255
    /\ wire[1] = 255
    /\ reencoded # <<>>

---------------------------------------------------------------------------
(* Properties of the handshake                                             *)

\* C4.  Handshake authenticity: the payload sign_handshake(ts) returns passes
\* verify() and carries ts, as it is and after to_bytes and from_bytes; with
\* its signature bytes zeroed, or one bit of its timestamp inverted, it
\* decodes but fails verify() with VerificationFailed.  The message signed
\* and the message verify() rebuilds are the same 72 bytes: identity key,
\* exchange key, big-endian timestamp.
HandshakeAuthentic ==
    /\ hs_origin # "none" =>
          /\ hs.timestamp = hs_args.timestamp
          /\ VerifiedMessage(hs) =
                 VerifyingKeyBytes(hs_args.identity) \o OnionKeyBytes(hs_args.identity)
                     \o U64ToBeBytes(hs_args.timestamp)
          /\ Len(VerifiedMessage(hs)) = 72
          /\ hs.signature = Ed25519Sign(hs_args.identity, VerifiedMessage(hs))
    /\ hs_direct # NoVerdict => hs_direct.tag = "Ok"
    /\ (hs_origin = "encoded" /\ hs_parsed # NoParsed) =>
          /\ hs_parsed.tag = "Ok"
          /\ hs_parsed.payload = hs
          /\ hs_parsed.payload.timestamp = hs_args.timestamp
    /\ (hs_origin = "encoded" /\ hs_verdict # NoVerdict) => hs_verdict.tag = "Ok"
    /\ (hs_origin \in {"zeroed", "ts_flipped"} /\ hs_parsed # NoParsed) =>
          hs_parsed.tag = "Ok"
    /\ (hs_origin \in {"zeroed", "ts_flipped"} /\ hs_verdict # NoVerdict) =>
          hs_verdict.tag = "Err" /\ hs_verdict.err = "VerificationFailed"

\* a payload whose timestamp lost its top bit on the way has been refused
HandshakeAuthenticReached ==
    /\ hs_origin = "ts_flipped"
    /\ hs_args.timestamp = <<65535, 65535, 65535, 65535>>
    /\ hs_parsed.payload.timestamp = <<32767, 65535, 65535, 65535>>
    /\ hs_verdict.tag = "Err"

\* a signature encoding is malformed when its scalar half has one of its top
\* three bits set
IsMalformedSignature(sig) == sig[64] >= 32

\* C8.  Handshake decode reports malformed signatures:
\* HandshakePayload::from_bytes returns Err(InvalidSignature) for 136 bytes
\* whose first 32 are a valid identity key and whose last 64 are a malformed
\* signature encoding; InvalidSize only when the length is not 136;
\* InvalidIdentityKey only when the first 32 bytes are no valid point.
MalformedSignatureReported ==
    hs_parsed # NoParsed =>
        /\ (/\ Len(hs_wire) = HANDSHAKE_PAYLOAD_SIZE
            /\ IsPoint(SubSeq(hs_wire, 1, 32))
            /\ IsMalformedSignature(SubSeq(hs_wire, 73, 136))) =>
              hs_parsed.tag = "Err" /\ hs_parsed.err = "InvalidSignature"
        /\ hs_parsed.err = "InvalidSize" => Len(hs_wire) # HANDSHAKE_PAYLOAD_SIZE
        /\ hs_parsed.err = "InvalidIdentityKey" =>
              Len(hs_wire) = HANDSHAKE_PAYLOAD_SIZE /\ ~IsPoint(SubSeq(hs_wire, 1, 32))

---------------------------------------------------------------------------
(* Properties of the encrypted layer                                       *)

\* C6.  No silently swallowed entropy failure in seal: whenever
\* encrypt_layer returns Ok, the random source succeeded in that call and
\* the 12-byte nonce prefix of the output is what it produced (so no two
\* successful calls share the nonce of a failed source).
EntropyFailureReported ==
    (seal_stage # "none" /\ sealed.tag = "Ok") =>
        /\ seal_args.rng.ok
        /\ SubSeq(sealed.bytes, 1, NONCE_SIZE) = seal_args.rng.bytes

\* C9.  Seal/open round trip: an Ok output of encrypt_layer(K, M) is
\* 12 + len(M) + 16 bytes long; try_decrypt_layer returns Ok(M) for it under
\* K and Err(DecryptionError) under any other key, and Err(InvalidLength)
\* for every input shorter than 12 bytes.
SealOpenRoundTrip ==
    /\ (seal_stage # "none" /\ sealed.tag = "Ok") =>
          Len(sealed.bytes) = 12 + Len(seal_args.plaintext) + 16
    /\ (seal_stage = "whole" /\ opened # NoBytes) =>
          IF open_key = seal_args.session_key
          THEN opened.tag = "Ok" /\ opened.bytes = seal_args.plaintext
          ELSE opened.tag = "Err" /\ opened.err = "DecryptionError"
    /\ (opened # NoBytes /\ Len(seal_wire) < 12) =>
          opened.tag = "Err" /\ opened.err = "InvalidLength"

\* a sealed two-byte plaintext has been refused under another key
SealOpenRoundTripReached ==
    /\ seal_stage = "whole"
    /\ Len(seal_args.plaintext) = 2
    /\ opened.tag = "Err"
    /\ open_key # seal_args.session_key

---------------------------------------------------------------------------
(* Properties of the C entry points                                        *)

\* the call passed null for a pointer it needs, or a handshake length other
\* than 136
IsBadCall ==
    \/ /\ ffi_call.fn = "ffi_create_session_key"
       /\ \E k \in 1 .. 3 : ffi_call.ptrs[k].null
    \/ /\ ffi_call.fn = "ffi_validate_handshake"
       /\ ffi_call.ptrs[1].null \/ ffi_call.len # 136
    \/ /\ ffi_call.fn = "ffi_encrypt_layer"
       /\ \/ ffi_call.ptrs[1].null
          \/ ffi_call.ptrs[2].null /\ ffi_call.len > 0
          \/ ffi_call.ptrs[3].null

\* the caller's output buffer as it was before the call
OutputBefore ==
    IF ffi_call.fn = "ffi_validate_handshake" THEN <<>> ELSE ffi_call.ptrs[3].mem

\* C7.  The entry points never trap on bad pointers: called with a null
\* required pointer (or, ffi_validate_handshake, a length other than 136),
\* each returns -1; it does not abort, does not write to the output buffer
\* and does not go on with substitute key material.
FfiRejectsBadPointers ==
    (ffi_call.fn # "none" /\ IsBadCall) =>
        /\ ffi_ret.outcome = "return"
        /\ ffi_ret.ret = -1
        /\ ffi_ret.out = OutputBefore

=============================================================================
